---- MODULE Spec2Model ----
(***************************************************************************)
(* Model of src/app.py: the Streamlit script that maps the columns of      *)
(* uploaded Excel sheets to a standard schema, and, on "Merge Files",      *)
(* normalises every sheet, concatenates them, cleans and deduplicates the  *)
(* ISBNs, drops zero PRICE/STOCK rows, converts the prices to INR and      *)
(* sorts the rows by company order.                                        *)
(*                                                                         *)
(* Python values are modelled as cells [t, v]:                             *)
(*   t = "nan"    a missing value (float NaN), v = 0                       *)
(*   t = "NA"     pandas' pd.NA, v = 0                                     *)
(*   t = "int"    a Python/numpy integer, v in hundredths (12 is 1200)     *)
(*   t = "float"  a float, v in hundredths (90.60 is 9060)                 *)
(*   t = "str"    a string, v the tuple of its characters                  *)
(*   t = "name"   a string of the company tables, v a TLA+ string          *)
(***************************************************************************)
EXTENDS Integers, Sequences, FiniteSets, TLC

\* ---------------------------------------------------------------- bounds
\* Rows read from every uploaded sheet.
MaxRows == 2

\* ------------------------------------------------------- program constants
STANDARD_COLUMNS ==
    <<"ISBN", "TITLE", "AUTHOR", "PUBLISHER", "STOCK", "CURRENCY", "PRICE",
      "COMPANY", "HANDLING">>

LeaveBlank == "(Leave Blank)"

COMPANY_KEYS ==
    <<"Adarsh", "Adhya", "UDH", "RUPA", "Prakash Delhi", "Prakash Noida",
      "IBD", "GBD", "ECP", "VCP">>

COMPANY_OPTIONS ==
    ("Adarsh" :> "2") @@ ("Adhya" :> "2") @@ ("UDH" :> "2") @@ ("RUPA" :> "2")
    @@ ("Prakash Delhi" :> "2") @@ ("Prakash Noida" :> "4") @@ ("IBD" :> "2")
    @@ ("GBD" :> "2") @@ ("ECP" :> "2") @@ ("VCP" :> "2")

COMPANY_ORDER ==
    <<"Adarsh", "GBD", "ECP", "IBD", "Prakash Delhi", "VCP", "Prakash Noida">>

STOCK_CONDITIONS ==
    ("Adarsh" :> 10) @@ ("Adhya" :> 2) @@ ("UDH" :> 0) @@ ("RUPA" :> 5)
    @@ ("Prakash Delhi" :> 4) @@ ("Prakash Noida" :> 4) @@ ("IBD" :> 3)
    @@ ("GBD" :> 5) @@ ("ECP" :> 0) @@ ("VCP" :> 3)

\* The rates, in hundredths; INR, RS and RS. are the integer 1, the others
\* floats.
CURRENCY_CONVERSION ==
    (<<"U", "S", "D">> :> [t |-> "float", v |-> 9060])
    @@ (<<"G", "B", "P">> :> [t |-> "float", v |-> 11380])
    @@ (<<"E", "U", "R">> :> [t |-> "float", v |-> 9470])
    @@ (<<"I", "N", "R">> :> [t |-> "int", v |-> 100])
    @@ (<<"R", "S">> :> [t |-> "int", v |-> 100])
    @@ (<<"R", "S", ".">> :> [t |-> "int", v |-> 100])
    @@ (<<"U", "K", "P">> :> [t |-> "float", v |-> 11380])
    @@ (<<"E", "U">> :> [t |-> "float", v |-> 9470])
    @@ (<<"€">> :> [t |-> "float", v |-> 9470])
    @@ (<<"£">> :> [t |-> "float", v |-> 11380])
    @@ (<<"$">> :> [t |-> "float", v |-> 9060])

\* CURRENCY_CONVERSION.get(code, 1.0): the float 1.0 when the code is no key.
DefaultRate == [t |-> "float", v |-> 100]

\* The base code written at line 194.
BaseCurrency == <<"I", "N", "R">>

\* ------------------------------------------------------------ cells, text
NaN == [t |-> "nan", v |-> 0]
NA == [t |-> "NA", v |-> 0]
IntCell(n) == [t |-> "int", v |-> 100 * n]
FloatCell(h) == [t |-> "float", v |-> h]
StrCell(s) == [t |-> "str", v |-> s]
NameCell(s) == [t |-> "name", v |-> s]

Range(s) == {s[i] : i \in DOMAIN s}

IsNumber(c) == c.t \in {"int", "float"}
IsText(c) == c.t \in {"str", "name"}
NoValue(c) == c.t \in {"nan", "NA"}

DigitChars == <<"0", "1", "2", "3", "4", "5", "6", "7", "8", "9">>
LowerCase ==
    <<"a", "b", "c", "d", "e", "f", "g", "h", "i", "j", "k", "l", "m", "n",
      "o", "p", "q", "r", "s", "t", "u", "v", "w", "x", "y", "z">>
UpperCase ==
    <<"A", "B", "C", "D", "E", "F", "G", "H", "I", "J", "K", "L", "M", "N",
      "O", "P", "Q", "R", "S", "T", "U", "V", "W", "X", "Y", "Z">>
Whitespace == {" "}

IsDigit(ch) == ch \in Range(DigitChars)
DigitValue(ch) == (CHOOSE i \in DOMAIN DigitChars : DigitChars[i] = ch) - 1

\* str(n) of a non-negative integer.
RECURSIVE Digits(_)
Digits(n) ==
    IF n < 10 THEN <<DigitChars[n + 1]>>
    ELSE Digits(n \div 10) \o <<DigitChars[(n % 10) + 1]>>

\* int(s) of a string of digits.
RECURSIVE Number(_)
Number(s) ==
    IF s = <<>> THEN 0
    ELSE 10 * Number(SubSeq(s, 1, Len(s) - 1)) + DigitValue(s[Len(s)])

\* str.strip()
RECURSIVE StripLeft(_)
StripLeft(s) ==
    IF s # <<>> /\ s[1] \in Whitespace THEN StripLeft(Tail(s)) ELSE s
RECURSIVE StripRight(_)
StripRight(s) ==
    IF s # <<>> /\ s[Len(s)] \in Whitespace
    THEN StripRight(SubSeq(s, 1, Len(s) - 1))
    ELSE s
Strip(s) == StripRight(StripLeft(s))

\* str.upper()
UpperChar(ch) ==
    IF ch \in Range(LowerCase)
    THEN UpperCase[CHOOSE i \in DOMAIN LowerCase : LowerCase[i] = ch]
    ELSE ch
Upper(s) == [i \in DOMAIN s |-> UpperChar(s[i])]

\* str.replace(r'[^\dXx]', '', regex=True)
IsbnChar(ch) == IsDigit(ch) \/ ch \in {"X", "x"}
KeepIsbnChars(s) == SelectSeq(s, IsbnChar)

\* astype(str) of one cell: an integer prints its digits, an integral float
\* its digits and ".0", a missing value "nan".
AsTypeStr(c) ==
    CASE c.t = "str" -> c.v
      [] c.t = "int" -> Digits(c.v \div 100)
      [] c.t = "float" -> Digits(c.v \div 100) \o <<".", "0">>
      [] OTHER -> <<"n", "a", "n">>

\* pd.to_numeric(errors="coerce") of one cell: a number stays, a string of
\* digits (blanks around it allowed) is parsed, anything else is NaN.
ToNumeric(c) ==
    CASE IsNumber(c) -> c
      [] c.t = "str" ->
            LET s == Strip(c.v)
            IN  IF s # <<>> /\ \A i \in DOMAIN s : IsDigit(s[i])
                THEN IntCell(Number(s))
                ELSE NaN
      [] OTHER -> NaN

\* ------------------------------------------------------------------ frames
\* A DataFrame is [columns, dtype, rows]: the column names in order, the
\* dtype of every column and the rows.  A row is [src, idx, val]: val maps
\* every column to a cell; src and idx say which uploaded file and which of
\* its rows the row was read from (0 before the merge loop has set them).
EmptyFrame == [columns |-> <<>>, dtype |-> <<>>, rows |-> <<>>]

Min(a, b) == IF a < b THEN a ELSE b

\* The dtype pandas infers for a column of cells: object when a string is
\* in it, float64 when all are numbers with some missing, int64 otherwise.
InferDtype(cells) ==
    IF \E i \in DOMAIN cells : cells[i].t \in {"str", "name", "NA"} THEN "object"
    ELSE IF \E i \in DOMAIN cells : cells[i].t \in {"nan", "float"} THEN "float64"
    ELSE "int64"

\* A cell stored in a column of that dtype: float64 turns an integer into a
\* float, object keeps every value as it is.
Cast(c, dtype) ==
    IF dtype = "float64" /\ c.t = "int" THEN FloatCell(c.v) ELSE c

\* pd.read_excel of a sheet, of which the first MaxRows rows are read.
read_excel(sheet) ==
    LET n == Min(MaxRows, Len(sheet.rows))
        cols == Range(sheet.columns)
        dt == [c \in cols |-> InferDtype([i \in 1..n |-> sheet.rows[i][c]])]
    IN  [columns |-> sheet.columns,
         dtype |-> dt,
         rows |-> [i \in 1..n |->
                     [src |-> 0, idx |-> i,
                      val |-> [c \in cols |-> Cast(sheet.rows[i][c], dt[c])]]]]

\* ------------------------------------------------- column mapping (88-111)
\* mapping.values() in column order.
MappingValues(columns, mapping) == [i \in DOMAIN columns |-> mapping[columns[i]]]

\* The loop without the test of line 104: every selection is taken as new.
RECURSIVE AssignLoopNoTest(_, _, _)
AssignLoopNoTest(columns, mapping, n) ==
    IF n = 0 THEN [assigned_standard |-> <<>>, duplicate_assigned |-> <<>>]
    ELSE LET before == AssignLoopNoTest(columns, mapping, n - 1)
             selected == mapping[columns[n]]
         IN  IF selected = LeaveBlank THEN before
             ELSE [before EXCEPT !.assigned_standard = Append(@, selected)]

\* The loop of lines 93-107 over the first n columns: the standard columns
\* assigned so far and the ones selected again.
RECURSIVE AssignLoop(_, _, _)
AssignLoop(columns, mapping, n) ==
    IF n = 0 THEN [assigned_standard |-> <<>>, duplicate_assigned |-> <<>>]
    ELSE LET before == AssignLoop(columns, mapping, n - 1)
             selected == mapping[columns[n]]
         IN  IF selected = LeaveBlank THEN before
             ELSE IF selected \in Range(before.assigned_standard)
             THEN [before EXCEPT !.duplicate_assigned = Append(@, selected)]
             ELSE [before EXCEPT !.assigned_standard = Append(@, selected)]

duplicate_assigned(columns, mapping) ==
    AssignLoop(columns, mapping, Len(columns)).duplicate_assigned

\* --------------------------------------- per-file normalisation (130-157)
NotBlank(v) == v # LeaveBlank

\* selected_cols of line 136.
selected_cols(df, mapping) ==
    SelectSeq(MappingValues(df.columns, mapping), NotBlank)

\* df.rename(columns=mapping) and df[selected_cols], for a mapping without a
\* duplicate target: every selected standard column holds the cells of the
\* one column mapped to it.
RenameSelect(df, mapping) ==
    LET sel == selected_cols(df, mapping)
        from == [t \in Range(sel) |->
                    CHOOSE c \in Range(df.columns) : mapping[c] = t]
    IN  [columns |-> sel,
         dtype |-> [t \in Range(sel) |-> df.dtype[from[t]]],
         rows |-> [i \in DOMAIN df.rows |->
                     [df.rows[i] EXCEPT
                        !.val = [t \in Range(sel) |-> df.rows[i].val[from[t]]]]]]

\* The filter that lets a missing STOCK through.
StockAtLeastOrMissing(c, min_stock) == IsNumber(c) => c.v >= 100 * min_stock

\* Lines 146-148: STOCK made numeric, and the rows kept whose STOCK is at
\* least min_stock (a comparison with NaN is false).
StockAtLeast(c, min_stock) == IsNumber(c) /\ c.v >= 100 * min_stock

StockFilter(df, company) ==
    IF "STOCK" \in Range(df.columns) /\ company \in DOMAIN STOCK_CONDITIONS
    THEN LET numeric == [i \in DOMAIN df.rows |-> ToNumeric(df.rows[i].val["STOCK"])]
             dt == InferDtype(numeric)
             min_stock == STOCK_CONDITIONS[company]
             Keep(r) == StockAtLeast(r.val["STOCK"], min_stock)
         IN  [df EXCEPT
                !.dtype = [@ EXCEPT !["STOCK"] = dt],
                !.rows = SelectSeq(
                    [i \in DOMAIN df.rows |->
                        [df.rows[i] EXCEPT !.val["STOCK"] = Cast(numeric[i], dt)]],
                    Keep)]
    ELSE df

\* Lines 154-155: the COMPANY and HANDLING columns are set on every row (a
\* column of that name coming from the mapping is overwritten).
SetColumn(df, c, cell) ==
    [columns |-> IF c \in Range(df.columns) THEN df.columns ELSE Append(df.columns, c),
     dtype |-> [k \in Range(df.columns) \cup {c} |->
                    IF k = c THEN "object" ELSE df.dtype[k]],
     rows |-> [i \in DOMAIN df.rows |->
                 [df.rows[i] EXCEPT
                    !.val = [k \in Range(df.columns) \cup {c} |->
                                IF k = c THEN cell ELSE df.rows[i].val[k]]]]]

HandlingOf(company) ==
    IF company \in DOMAIN COMPANY_OPTIONS THEN COMPANY_OPTIONS[company] ELSE "0"

Stamp(df, company) ==
    SetColumn(SetColumn(df, "COMPANY", NameCell(company)),
              "HANDLING", NameCell(HandlingOf(company)))

\* One pass of the loop body of lines 130-157 for the file at position f.
Normalize(df, mapping, company, f) ==
    LET own == [df EXCEPT !.rows = [i \in DOMAIN df.rows |->
                                      [df.rows[i] EXCEPT !.src = f]]]
    IN  Stamp(StockFilter(RenameSelect(own, mapping), company), company)

\* ------------------------------------------------ concatenation (165-168)
RECURSIVE ConcatRows(_)
ConcatRows(dfs) ==
    IF dfs = <<>> THEN <<>> ELSE Head(dfs).rows \o ConcatRows(Tail(dfs))

\* pd.concat(merged_dfs, ignore_index=True) and the reindex on the standard
\* columns: the columns are the standard columns some frame has, a frame
\* without a column contributes NaN, and a column is object when a part of
\* it is, float64 when a part is float64 or missing, int64 otherwise.
Concat(dfs) ==
    LET present == {c \in Range(STANDARD_COLUMNS) :
                        \E k \in DOMAIN dfs : c \in Range(dfs[k].columns)}
        InPresent(c) == c \in present
        Has(k, c) == c \in Range(dfs[k].columns)
        dt == [c \in present |->
                 IF \E k \in DOMAIN dfs : Has(k, c) /\ dfs[k].dtype[c] = "object"
                 THEN "object"
                 ELSE IF \E k \in DOMAIN dfs : ~Has(k, c) \/ dfs[k].dtype[c] = "float64"
                 THEN "float64"
                 ELSE "int64"]
        all == ConcatRows(dfs)
    IN  [columns |-> SelectSeq(STANDARD_COLUMNS, InPresent),
         dtype |-> dt,
         rows |-> [i \in DOMAIN all |->
                     [all[i] EXCEPT
                        !.val = [c \in present |->
                                    IF c \in DOMAIN all[i].val
                                    THEN Cast(all[i].val[c], dt[c])
                                    ELSE NaN]]]]

\* ------------------------------------------- ISBN cleaning (171-180)
\* The value written back to ISBN at lines 172-178.
CleanIsbn(c) ==
    LET s == KeepIsbnChars(Strip(AsTypeStr(c)))
    IN  IF s \in {<<"n", "a", "n">>, <<"N", "a", "N">>, <<>>, <<"0">>}
        THEN NA
        ELSE StrCell(s)

\* pandas' duplicated(keep="first") on one column: a row is a duplicate
\* when an earlier row holds the same value, and missing values (NaN, NA)
\* count as the same value.
SameKey(a, b) ==
    a.t = b.t /\ (a.t = "str" => a.v = b.v)

\* duplicated(keep="last"): a row is a duplicate when a later row holds the
\* same value.
DuplicatedKeepLast(rows, j) ==
    \E i \in (j + 1)..Len(rows) : SameKey(rows[i].val["ISBN"], rows[j].val["ISBN"])

Duplicated(rows, j) ==
    \E i \in 1..(j - 1) : SameKey(rows[i].val["ISBN"], rows[j].val["ISBN"])

RECURSIVE KeepFirst(_, _)
KeepFirst(rows, j) ==
    IF j > Len(rows) THEN <<>>
    ELSE (IF Duplicated(rows, j) THEN <<>> ELSE <<rows[j]>>)
         \o KeepFirst(rows, j + 1)

drop_duplicates(df) ==
    [df EXCEPT !.rows = KeepFirst(df.rows, 1)]

CleanAndDedup(df) ==
    IF "ISBN" \in Range(df.columns)
    THEN drop_duplicates(
            [df EXCEPT
               !.dtype = [@ EXCEPT !["ISBN"] = "object"],
               !.rows = [i \in DOMAIN df.rows |->
                           [df.rows[i] EXCEPT
                              !.val["ISBN"] = CleanIsbn(df.rows[i].val["ISBN"])]]])
    ELSE df

\* ------------------------------------------- zero filter (183-185)
\* value != 0 in Python: only the number zero equals 0; a string or a
\* missing value does not.
NotZero(c) == ~(IsNumber(c) /\ c.v = 0)

RECURSIVE ZeroFilterCols(_, _)
ZeroFilterCols(df, cols) ==
    IF cols = <<>> THEN df
    ELSE LET col == Head(cols)
             Keep(r) == NotZero(r.val[col])
         IN  ZeroFilterCols(
                IF col \in Range(df.columns)
                THEN [df EXCEPT !.rows = SelectSeq(df.rows, Keep)]
                ELSE df,
                Tail(cols))

ZeroFilter(df) == ZeroFilterCols(df, <<"PRICE", "STOCK">>)

\* ------------------------------------------ currency conversion (188-194)
\* The key without the upper case.
CurrencyCodeAsWritten(c) == Strip(AsTypeStr(c))

\* The key looked up for a row: its CURRENCY as a string, stripped and in
\* upper case (line 189).
CurrencyCode(c) == Upper(Strip(AsTypeStr(c)))

\* CURRENCY_CONVERSION.get(code, 1.0)
RateOf(code) ==
    IF code \in DOMAIN CURRENCY_CONVERSION THEN CURRENCY_CONVERSION[code]
    ELSE DefaultRate

TypeError == [t |-> "TypeError", v |-> 0]

\* Python's price * rate: the product of two numbers (an integer only when
\* both are), NaN for a missing price, the string itself for a string times
\* the integer 1, and a TypeError for a string times a float.
Multiply(price, rate) ==
    CASE IsNumber(price) ->
            [t |-> IF price.t = "int" /\ rate.t = "int" THEN "int" ELSE "float",
             v |-> (price.v * rate.v) \div 100]
      [] price.t = "str" ->
            IF rate.t = "int" /\ rate.v = 100 THEN price ELSE TypeError
      [] OTHER -> NaN

\* Lines 188-194.  raised says that the lambda of line 191 raised for some
\* row, which ends the run of the script there.
Convert(df) ==
    IF "CURRENCY" \in Range(df.columns) /\ "PRICE" \in Range(df.columns)
    THEN LET price == [i \in DOMAIN df.rows |->
                         Multiply(df.rows[i].val["PRICE"],
                                  RateOf(CurrencyCode(df.rows[i].val["CURRENCY"])))]
         IN  IF \E i \in DOMAIN price : price[i] = TypeError
             THEN [raised |-> TRUE, df |-> EmptyFrame]
             ELSE [raised |-> FALSE,
                   df |-> [df EXCEPT
                      !.dtype = [@ EXCEPT !["CURRENCY"] = "object",
                                          !["PRICE"] = InferDtype(price)],
                      !.rows = [i \in DOMAIN df.rows |->
                                  [df.rows[i] EXCEPT
                                     !.val["PRICE"] = price[i],
                                     !.val["CURRENCY"] = StrCell(BaseCurrency)]]]]
    ELSE [raised |-> FALSE, df |-> df]

\* ----------------------------------------------- company sort (197-199)
\* The codes of the categories in the opposite order.
CategoryCodeReversed(c) ==
    IF c.t = "name" /\ c.v \in Range(COMPANY_ORDER)
    THEN Len(COMPANY_ORDER)
         - (CHOOSE k \in DOMAIN COMPANY_ORDER : COMPANY_ORDER[k] = c.v)
    ELSE -1

\* The code of a value in pd.Categorical(..., categories=COMPANY_ORDER): its
\* position in the categories, or -1 (the value becomes NaN) when it is none
\* of them.
CategoryCode(c) ==
    IF c.t = "name" /\ c.v \in Range(COMPANY_ORDER)
    THEN (CHOOSE k \in DOMAIN COMPANY_ORDER : COMPANY_ORDER[k] = c.v) - 1
    ELSE -1

Categorical(c) == IF CategoryCode(c) = -1 THEN NaN ELSE c

\* The positions from j on whose code is k, in their order.
RECURSIVE PositionsOf(_, _, _)
PositionsOf(codes, k, j) ==
    IF j > Len(codes) THEN <<>>
    ELSE (IF codes[j] = k THEN <<j>> ELSE <<>>) \o PositionsOf(codes, k, j + 1)

\* Every order of a set of row positions.
RECURSIVE Orderings(_)
Orderings(S) ==
    IF S = {} THEN {<<>>}
    ELSE UNION {{<<x>> \o p : p \in Orderings(S \ {x})} : x \in S}

\* The orders sort_values may give the rows that have a category: ascending
\* in the code.  The default kind is quicksort, numpy's introsort on the
\* codes: it sorts up to 16 elements by insertion, which leaves rows of
\* equal code in their order, and gives no order among them above that.
RECURSIVE CodeOrders(_, _)
CodeOrders(codes, k) ==
    IF k > Len(COMPANY_ORDER) - 1 THEN {<<>>}
    ELSE {a \o b : a \in (IF Len(codes) <= 16
                          THEN {PositionsOf(codes, k, 1)}
                          ELSE Orderings({i \in DOMAIN codes : codes[i] = k})),
                   b \in CodeOrders(codes, k + 1)}

\* na_position="last": the rows without a category follow, in their order.
NaNPositions(codes) == PositionsOf(codes, -1, 1)

\* Lines 197-199: the frames the sort can leave in merged_df.
SortByCompany(df) ==
    LET cat == [df EXCEPT
                  !.dtype = [@ EXCEPT !["COMPANY"] = "category"],
                  !.rows = [i \in DOMAIN df.rows |->
                              [df.rows[i] EXCEPT
                                 !.val["COMPANY"] = Categorical(df.rows[i].val["COMPANY"])]]]
        codes == [i \in DOMAIN df.rows |-> CategoryCode(df.rows[i].val["COMPANY"])]
    IN  {[cat EXCEPT !.rows = [i \in DOMAIN order |-> cat.rows[order[i]]]] :
            order \in {o \o NaNPositions(codes) : o \in CodeOrders(codes, 0)}}

\* ------------------------------------------------------------ the inputs
\* The sheets that are uploaded.  Every column holds a string or an empty
\* cell among its first two rows, so that no column is read as int64.
SheetP ==
    [name |-> "P.xlsx", columns |-> <<"A", "B">>,
     rows |-> << [A |-> IntCell(12), B |-> StrCell(<<" ", "u", "s", "d">>)],
                 [A |-> NaN, B |-> StrCell(<<"1", "-", "X">>)],
                 [A |-> IntCell(5), B |-> StrCell(<<"i", "n", "r">>)] >>]

SheetQ ==
    [name |-> "Q.xlsx", columns |-> <<"A", "B">>,
     rows |-> << [A |-> StrCell(<<"1", "-", "X">>), B |-> StrCell(<<"R", "s">>)],
                 [A |-> IntCell(0), B |-> StrCell(<<"0">>)],
                 [A |-> StrCell(<<"1", "X">>), B |-> IntCell(7)] >>]

SheetR ==
    [name |-> "R.xlsx", columns |-> <<"A">>,
     rows |-> << [A |-> StrCell(<<"1", "X">>)],
                 [A |-> NaN],
                 [A |-> StrCell(<<"G", "B", "P">>)] >>]

SheetS ==
    [name |-> "S.xlsx", columns |-> <<"A">>,
     rows |-> << [A |-> IntCell(4)],
                 [A |-> StrCell(<<"0">>)],
                 [A |-> IntCell(12)] >>]

\* The lists of files the uploader can hold.
Uploads ==
    { <<SheetP, SheetS>>, <<SheetS, SheetP>>, <<SheetQ, SheetR>>, <<SheetR, SheetQ>> }

\* The options offered for a column that the user picks from.
TargetChoices == {LeaveBlank, "ISBN", "STOCK", "CURRENCY", "PRICE", "COMPANY"}

\* The companies the user picks from.
CompanyChoices == Range(COMPANY_KEYS)

\* ------------------------------------------------------------------ state
VARIABLES
    uploaded_files,              \* the uploaded files: [name, df], df as read
    final_mapping,               \* per file, the option selected for each column
    company_selection,           \* per file, the company selected
    duplicate_assignment_errors, \* file name -> duplicate_assigned, when not empty
    status,                      \* what the last run of the script showed
    stages,                      \* the values merged_df took before the sort
    merged_df                    \* the table shown and offered for download

vars ==
    <<uploaded_files, final_mapping, company_selection,
      duplicate_assignment_errors, status, stages, merged_df>>

Files == DOMAIN uploaded_files

NoStages ==
    [concat |-> EmptyFrame, dedup |-> EmptyFrame, zero |-> EmptyFrame,
     conv |-> EmptyFrame]

\* Lines 109-110 for every file: the entries of duplicate_assignment_errors
\* after the upload loop.
DuplicateErrors(files, mapping) ==
    LET dup(f) == duplicate_assigned(files[f].df.columns, mapping[f])
        bad == {f \in DOMAIN files : dup(f) # <<>>}
    IN  [n \in {files[f].name : f \in bad} |->
            dup(CHOOSE f \in bad : files[f].name = n)]

\* The first run after the upload: no column has a suggestion above the
\* score of 70 (every other selection is reached by SelectMapping), and
\* every company select box shows its first option.
Init ==
    /\ \E up \in Uploads :
          uploaded_files = [f \in DOMAIN up |->
                               [name |-> up[f].name, df |-> read_excel(up[f])]]
    /\ final_mapping = [f \in DOMAIN uploaded_files |->
                          [c \in Range(uploaded_files[f].df.columns) |-> LeaveBlank]]
    /\ company_selection = [f \in DOMAIN uploaded_files |-> COMPANY_KEYS[1]]
    /\ duplicate_assignment_errors = DuplicateErrors(uploaded_files, final_mapping)
    /\ status = "idle"
    /\ stages = NoStages
    /\ merged_df = EmptyFrame

\* A run of the script in which the button was not clicked: the upload loop
\* sets duplicate_assignment_errors, nothing is merged.
Rerun(mapping) ==
    /\ duplicate_assignment_errors' = DuplicateErrors(uploaded_files, mapping)
    /\ status' = "idle"
    /\ stages' = NoStages
    /\ merged_df' = EmptyFrame

\* The user picks another option in the select box of a column (95-101).
SelectMapping(f, col, selected) ==
    /\ final_mapping[f][col] # selected
    /\ final_mapping' = [final_mapping EXCEPT ![f][col] = selected]
    /\ Rerun(final_mapping')
    /\ UNCHANGED <<uploaded_files, company_selection>>

\* The user picks another company for a file (114-118).
SelectCompany(f, company) ==
    /\ company_selection[f] # company
    /\ company_selection' = [company_selection EXCEPT ![f] = company]
    /\ Rerun(final_mapping)
    /\ UNCHANGED <<uploaded_files, final_mapping>>

\* merged_dfs of lines 125-157: the normalised frames of the files that
\* have a selected column, in the order of the files.
RECURSIVE MergedDfs(_)
MergedDfs(f) ==
    IF f > Len(uploaded_files) THEN <<>>
    ELSE (IF selected_cols(uploaded_files[f].df, final_mapping[f]) = <<>>
          THEN <<>>
          ELSE <<Normalize(uploaded_files[f].df, final_mapping[f],
                           company_selection[f], f)>>)
         \o MergedDfs(f + 1)

\* The user clicks "Merge Files" (121-208).  The button is there only when
\* duplicate_assignment_errors is empty.
ClickMerge ==
    /\ uploaded_files # <<>>
    /\ DOMAIN duplicate_assignment_errors = {}
    /\ LET merged_dfs == MergedDfs(1)
           concat == Concat(merged_dfs)
           dedup == CleanAndDedup(concat)
           zero == ZeroFilter(dedup)
           conv == Convert(zero)
       IN  IF merged_dfs = <<>>
           THEN /\ status' = "no_data"
                /\ stages' = NoStages
                /\ merged_df' = EmptyFrame
           ELSE IF conv.raised
           THEN /\ status' = "raised"
                /\ stages' = [concat |-> concat, dedup |-> dedup, zero |-> zero,
                              conv |-> EmptyFrame]
                /\ merged_df' = EmptyFrame
           ELSE /\ status' = "merged"
                /\ stages' = [concat |-> concat, dedup |-> dedup, zero |-> zero,
                              conv |-> conv.df]
                /\ merged_df' \in SortByCompany(conv.df)
    /\ UNCHANGED <<uploaded_files, final_mapping, company_selection,
                   duplicate_assignment_errors>>

Next ==
    \/ \E f \in Files : \E col \in Range(uploaded_files[f].df.columns) :
          \E selected \in TargetChoices : SelectMapping(f, col, selected)
    \/ \E f \in Files : \E company \in CompanyChoices : SelectCompany(f, company)
    \/ ClickMerge

Spec == Init /\ [][Next]_vars

\* ============================================================ properties
\* What the properties say about a state, in terms of the inputs.

\* The column of file f mapped to a standard column, and whether there is one.
Maps(f, target) ==
    \E c \in DOMAIN final_mapping[f] : final_mapping[f][c] = target
SourceColumn(f, target) ==
    CHOOSE c \in DOMAIN final_mapping[f] : final_mapping[f][c] = target

\* Two columns of file f are assigned the same standard column.
HasDuplicateTarget(f) ==
    \E c1, c2 \in DOMAIN final_mapping[f] :
        /\ c1 # c2
        /\ final_mapping[f][c1] # LeaveBlank
        /\ final_mapping[f][c1] = final_mapping[f][c2]

HasSelection(f) ==
    \E c \in DOMAIN final_mapping[f] : final_mapping[f][c] # LeaveBlank

\* The cell of row i of file f, as read, in the column mapped to target.
RawCell(f, i, target) ==
    uploaded_files[f].df.rows[i].val[SourceColumn(f, target)]

HasColumn(df, c) == c \in Range(df.columns)

\* The row read from row i of file f is in the frame.
Holds(df, f, i) ==
    \E k \in DOMAIN df.rows : df.rows[k].src = f /\ df.rows[k].idx = i

SameRow(r1, r2) == r1.src = r2.src /\ r1.idx = r2.idx

\* The position of a company in the priority list, after the list for a
\* company that is not in it.
PriorityRank(company) ==
    IF \E k \in DOMAIN COMPANY_ORDER : COMPANY_ORDER[k] = company
    THEN CHOOSE k \in DOMAIN COMPANY_ORDER : COMPANY_ORDER[k] = company
    ELSE Len(COMPANY_ORDER) + 1

Pipelined == status \in {"merged", "raised"}

\* ---------------------------------------------------------------- C1
\* C1: while some uploaded file has a mapping with two columns on the same
\* standard column, no run of the script merges anything: nothing is shown
\* as merged, no stage of the pipeline has run on any file, valid ones
\* included.
C1_MergeGate ==
    (\E f \in Files : HasDuplicateTarget(f))
        => /\ status = "idle"
           /\ stages = NoStages
           /\ merged_df = EmptyFrame

\* A file with a duplicate target next to a file with a valid, non-empty
\* mapping: the gate holds both back.
C1_Witness ==
    /\ \E f, g \in Files :
          /\ HasDuplicateTarget(f)
          /\ ~HasDuplicateTarget(g) /\ HasSelection(g)
    /\ DOMAIN duplicate_assignment_errors # {}
    /\ status = "idle"

\* ---------------------------------------------------------------- C2
\* C2: in the final table, every row of a file that maps a column to STOCK
\* has a numeric STOCK of at least the threshold of the file's company, and
\* no row of such a file whose STOCK cell is not numeric is in the table.
C2_StockFilter ==
    status = "merged" =>
        /\ \A k \in DOMAIN merged_df.rows :
              LET r == merged_df.rows[k]
              IN  Maps(r.src, "STOCK") =>
                    /\ IsNumber(r.val["STOCK"])
                    /\ r.val["STOCK"].v
                          >= 100 * STOCK_CONDITIONS[company_selection[r.src]]
        /\ \A f \in Files : Maps(f, "STOCK") =>
              \A i \in DOMAIN uploaded_files[f].df.rows :
                    ~IsNumber(ToNumeric(RawCell(f, i, "STOCK")))
                        => ~Holds(merged_df, f, i)

\* A merge in which a file with STOCK has a row in the output, a row with a
\* number below the threshold and a row whose STOCK is not numeric at all.
C2_Witness ==
    /\ status = "merged"
    /\ \E f \in Files :
          /\ Maps(f, "STOCK")
          /\ \E i \in DOMAIN uploaded_files[f].df.rows : Holds(merged_df, f, i)
    /\ \E f \in Files :
          /\ Maps(f, "STOCK")
          /\ \E i \in DOMAIN uploaded_files[f].df.rows :
                /\ IsNumber(ToNumeric(RawCell(f, i, "STOCK")))
                /\ ToNumeric(RawCell(f, i, "STOCK")).v > 0
                /\ ~Holds(merged_df, f, i)
    /\ \E f \in Files :
          /\ Maps(f, "STOCK")
          /\ \E i \in DOMAIN uploaded_files[f].df.rows :
                ~IsNumber(ToNumeric(RawCell(f, i, "STOCK")))

\* ---------------------------------------------------------------- C3
\* The cleaned ISBN of row i of the concatenated table.
CleanedIsbn(i) == CleanIsbn(stages.concat.rows[i].val["ISBN"])

Survives(i) ==
    Holds(stages.dedup, stages.concat.rows[i].src, stages.concat.rows[i].idx)

\* C3: of two rows of the merged table with the same cleaned ISBN that is a
\* value, the later one is dropped; and a row whose cleaned ISBN no earlier
\* row shares is kept, so the first row of every ISBN survives.
C3_KeepFirst ==
    (Pipelined /\ HasColumn(stages.concat, "ISBN")) =>
        \A j \in DOMAIN stages.concat.rows :
            /\ (\E i \in 1..(j - 1) :
                    /\ CleanedIsbn(i) = CleanedIsbn(j)
                    /\ ~NoValue(CleanedIsbn(j)))
                  => ~Survives(j)
            /\ (\A i \in 1..(j - 1) : CleanedIsbn(i) # CleanedIsbn(j))
                  => Survives(j)

\* Two rows that differ as read ("1-X" and "1X") and have the same cleaned
\* ISBN: the first is kept, the second dropped.
C3_Witness ==
    /\ Pipelined /\ HasColumn(stages.concat, "ISBN")
    /\ \E i, j \in DOMAIN stages.concat.rows :
          /\ i < j
          /\ stages.concat.rows[i].val["ISBN"] # stages.concat.rows[j].val["ISBN"]
          /\ CleanedIsbn(i) = CleanedIsbn(j)
          /\ ~NoValue(CleanedIsbn(j))
          /\ Survives(i) /\ ~Survives(j)

\* ---------------------------------------------------------------- C4
\* C4: rows whose cleaned ISBN is "no value" are not deduplicated against
\* each other: every one of them survives the deduplication.
C4_NoValueRowsKept ==
    (Pipelined /\ HasColumn(stages.concat, "ISBN")) =>
        \A j \in DOMAIN stages.concat.rows :
            NoValue(CleanedIsbn(j)) => Survives(j)

\* ---------------------------------------------------------------- C5
\* The rate of the claim for a cell of CURRENCY: the one of the table for
\* the code trimmed and in upper case, 1 when the table has none.
RateInHundredths(c) ==
    LET code == Upper(Strip(AsTypeStr(c)))
    IN  IF code \in DOMAIN CURRENCY_CONVERSION
        THEN CURRENCY_CONVERSION[code].v
        ELSE 100

\* Row i after the conversion has CURRENCY "INR" and the PRICE it had before
\* times the rate of the currency it had before.
Converted(i) ==
    LET before == stages.zero.rows[i].val
        after == stages.conv.rows[i].val
    IN  /\ after["CURRENCY"] = StrCell(BaseCurrency)
        /\ HasColumn(stages.zero, "PRICE") =>
             /\ IsNumber(before["PRICE"]) =>
                   /\ IsNumber(after["PRICE"])
                   /\ 100 * after["PRICE"].v
                        = before["PRICE"].v * RateInHundredths(before["CURRENCY"])
             /\ NoValue(before["PRICE"]) => NoValue(after["PRICE"])
             /\ IsText(before["PRICE"]) => after["PRICE"] = before["PRICE"]

CompanyOf(r) == company_selection[r.src]

\* C6: in the final table the priority rank of the company of a row is at
\* most the rank of the company of the next row, the companies outside the
\* priority list ranking after all of the list.
C6_SortedByRank ==
    status = "merged" =>
        \A k \in 1..(Len(merged_df.rows) - 1) :
            PriorityRank(CompanyOf(merged_df.rows[k]))
                <= PriorityRank(CompanyOf(merged_df.rows[k + 1]))

\* The first file's company ranks after the second file's, both have rows
\* in the output: the sort has moved rows.
C6_Witness ==
    /\ status = "merged"
    /\ \E k \in 1..(Len(merged_df.rows) - 1) :
          /\ merged_df.rows[k].src > merged_df.rows[k + 1].src
          /\ PriorityRank(CompanyOf(merged_df.rows[k]))
                < PriorityRank(CompanyOf(merged_df.rows[k + 1]))
    /\ \E k \in DOMAIN merged_df.rows :
          PriorityRank(CompanyOf(merged_df.rows[k])) > Len(COMPANY_ORDER)

\* ---------------------------------------------------------------- C7
\* The position in the table before the sort of the row at position k of
\* the final table.
Before(k) ==
    CHOOSE i \in DOMAIN stages.conv.rows :
        SameRow(stages.conv.rows[i], merged_df.rows[k])

\* C7: the sort keeps rows of equal priority rank in the order they had
\* before it, and changes no value of any row.
C7_StableSort ==
    status = "merged" =>
        /\ \A k, l \in DOMAIN merged_df.rows :
              (/\ k < l
               /\ PriorityRank(CompanyOf(merged_df.rows[k]))
                    = PriorityRank(CompanyOf(merged_df.rows[l])))
                  => Before(k) < Before(l)
        /\ \A k \in DOMAIN merged_df.rows :
              merged_df.rows[k].val = stages.conv.rows[Before(k)].val

\* ---------------------------------------------------------------- C8
\* A cell that holds zero: the number 0 or the text "0".
IsZero(c) ==
    \/ IsNumber(c) /\ c.v = 0
    \/ IsNumber(ToNumeric(c)) /\ ToNumeric(c).v = 0

\* C8: no PRICE or STOCK of the final table is zero or the text "0", every
\* one that is not missing is a number, and the zero filter drops a row
\* only for a zero PRICE or STOCK.
C8_ZeroFilter ==
    status = "merged" =>
        /\ \A k \in DOMAIN merged_df.rows :
              \A c \in {"PRICE", "STOCK"} :
                  HasColumn(merged_df, c) =>
                      /\ ~IsZero(merged_df.rows[k].val[c])
                      /\ NoValue(merged_df.rows[k].val[c])
                            \/ IsNumber(merged_df.rows[k].val[c])
        /\ \A i \in DOMAIN stages.dedup.rows :
              LET r == stages.dedup.rows[i]
              IN  ~Holds(stages.zero, r.src, r.idx) =>
                      \E c \in {"PRICE", "STOCK"} :
                          HasColumn(stages.dedup, c) /\ IsZero(r.val[c])

\* ---------------------------------------------------------------- C9
\* C9: a merged table with a PRICE or STOCK cell that is not a number does
\* not make the run raise: the pipeline ends with an output table.
C9_NeverRaises ==
    (/\ Pipelined
     /\ \E i \in DOMAIN stages.concat.rows :
           \E c \in {"PRICE", "STOCK"} :
               HasColumn(stages.concat, c) /\ IsText(stages.concat.rows[i].val[c]))
        => status = "merged"

\* ---------------------------------------------------------------- C10
\* C10: every row of the final table has as COMPANY the company selected
\* for its file and as HANDLING the handling code of that company.
C10_Stamp ==
    status = "merged" =>
        \A k \in DOMAIN merged_df.rows :
            LET r == merged_df.rows[k]
            IN  /\ r.val["COMPANY"] = NameCell(CompanyOf(r))
                /\ r.val["HANDLING"] = NameCell(COMPANY_OPTIONS[CompanyOf(r)])

====
